---- MODULE Spec2Model ----
(***************************************************************************)
(* A model of lxc_ssh_setup.py: the host-side script that brings every     *)
(* running LXC container to "sshd installed and running, password          *)
(* authentication off, root's authorized_keys replaced".                   *)
(*                                                                         *)
(* Text is modelled as sequences of tokens.  A token is a string that the  *)
(* code never looks inside ("alpine", "PasswordAuthentication", a whole    *)
(* public key), or one of the characters the code does look for: "=",      *)
(* the double quote DQ, "#", " " and the newline NL.                       *)
(*                                                                         *)
(* A remote command (pct exec ...) is modelled by what it reads and writes *)
(* in the container; its outcome is chosen by the environment:             *)
(*   "ok"      the command ran and every step of it did its work,          *)
(*   "fail"    the command ran and a step of it failed (non-zero status),  *)
(*   "execerr" pct exec itself could not run the command (non-zero status, *)
(*             nothing ran in the container).                              *)
(***************************************************************************)
EXTENDS Integers, Sequences, FiniteSets, TLC

VARIABLES
    containers,  \* main's dict: vmid -> [running, hasVersion, version]
    remote,      \* the containers themselves: vmid -> what is inside
    keyfile,     \* the host's keys.pub: [exists, text]
    pc,          \* where main() is: "idle", "os", "install", "pw", "keys", "done", "crashed"
    idx,         \* the loop index of main()'s current stage
    out,         \* what main() printed about containers, in order
    faulty,      \* the containers whose remote commands can fail (at most one)
    calls,       \* history: the direct calls of a reconciler, in order
    issued       \* history: the remote commands main() ran, per stage and container

vars == <<containers, remote, keyfile, pc, idx, out, faulty, calls, issued>>

-----------------------------------------------------------------------------
(* Bounds *)

NumContainers == 2     \* size of the fleet in a run of main()
MaxCalls == 2          \* direct calls of one reconciler in a row
MaxConfigLines == 2    \* lines of /etc/ssh/sshd_config
MaxKeyLines == 2       \* lines of authorized_keys and of keys.pub

-----------------------------------------------------------------------------
(* Text *)

NL == "\n"
DQ == "dq"

\* str.split(sep): the pieces between the separators, at least one piece
RECURSIVE Split(_, _)
Split(s, sep) ==
    IF \A i \in 1..Len(s) : s[i] # sep
    THEN <<s>>
    ELSE LET i == CHOOSE k \in 1..Len(s) :
                    s[k] = sep /\ \A j \in 1..(k - 1) : s[j] # sep
         IN  <<SubSeq(s, 1, i - 1)>> \o Split(SubSeq(s, i + 1, Len(s)), sep)

\* str.splitlines(): as Split on the newline, without the empty piece after a
\* final newline; the empty text has no lines
SplitLines(s) ==
    IF s = <<>> THEN <<>>
    ELSE LET p == Split(s, NL)
         IN  IF p[Len(p)] = <<>> THEN SubSeq(p, 1, Len(p) - 1) ELSE p

\* str.lower() on one token
LowerTok(t) ==
    CASE t = "ID" -> "id"
      [] t = "NAME" -> "name"
      [] t = "Alpine" -> "alpine"
      [] t = "DEBIAN" -> "debian"
      [] t = "Ubuntu" -> "ubuntu"
      [] OTHER -> t

Lower(s) == [i \in 1..Len(s) |-> LowerTok(s[i])]

\* str.replace('"', '')
RemoveQuotes(s) == SelectSeq(s, LAMBDA t : t # DQ)

\* str.startswith(prefix)
StartsWith(s, prefix) ==
    /\ Len(prefix) <= Len(s)
    /\ SubSeq(s, 1, Len(prefix)) = prefix

-----------------------------------------------------------------------------
(* The outcome of subprocess.run on a pct exec command *)

\* returncode: that of the command when it ran, pct's own when it could not
ReturnCode(how, status) == IF how = "execerr" THEN 255 ELSE status

Cmd(op, mgr, unit, pkg) == [op |-> op, mgr |-> mgr, unit |-> unit, pkg |-> pkg]

Ran(cmd, how, rc) == [cmd |-> cmd, how |-> how, rc |-> rc]

\* a reconciler's result: the exception it raised or the tuple it returned,
\* the container afterwards and the remote commands it ran
Result(exc, changed, msg, r, run) ==
    [exc |-> exc, changed |-> changed, msg |-> msg, remote |-> r, run |-> run]

-----------------------------------------------------------------------------
(* get_linux_version *)

\* what `cat /etc/os-release` prints
CatOsRelease(r, how) == IF how = "ok" THEN r.osrelease ELSE <<>>

\* the dict comprehension {item[0].lower(): item[1].replace('"', '') ...}:
\* item[1] of a line without "=" raises IndexError; a later line with the
\* same key wins
get_linux_version(stdout) ==
    LET lines == SplitLines(stdout)
        items == [i \in 1..Len(lines) |-> Split(lines[i], "=")]
        keys  == {Lower(items[i][1]) : i \in 1..Len(items)}
        last(k) == CHOOSE i \in 1..Len(items) :
                      /\ Lower(items[i][1]) = k
                      /\ \A j \in (i + 1)..Len(items) : Lower(items[j][1]) # k
    IN  IF \E i \in 1..Len(items) : Len(items[i]) < 2
        THEN [exc |-> "IndexError", version |-> <<>>]
        ELSE [exc |-> "none",
              version |-> [k \in keys |-> RemoveQuotes(items[last(k)][2])]]

\* container['version']['id']
HasId(c) == <<"id">> \in DOMAIN c.version
Id(c) == c.version[<<"id">>]

-----------------------------------------------------------------------------
(* install_openssh *)

\* sh -c 'command -v sshd': status 0 when the daemon is on the search path
CheckSshd(r) == IF r.sshd THEN 0 ELSE 1

\* the service-state probes: status 0 when the named unit is enabled and active
\* ('rc-update show | grep sshd | grep -q default && rc-service sshd status |
\* grep -q started', 'systemctl is-enabled U && systemctl is-active U')
ServiceCheck(r, unit) == IF r.unit[unit] = "running" THEN 0 ELSE 1

\* 'rc-update add U && rc-service U start', 'systemctl enable U && systemctl start U'
EnableStart(r, unit, how) ==
    IF how = "ok" THEN [r EXCEPT !.unit[unit] = "running"] ELSE r

\* '<package manager> install <pkg> && <enable U> && <start U>': "fail" is a
\* failed package installation, "partial" an installed package whose service
\* could not be enabled and started
Install(r, unit, how) ==
    CASE how = "ok"      -> [r EXCEPT !.sshd = TRUE, !.unit[unit] = "running"]
      [] how = "partial" -> [r EXCEPT !.sshd = TRUE]
      [] OTHER           -> r

InstallStatus(how) == IF how = "ok" THEN 0 ELSE 1

\* lines 83-92: the service-state probe chosen for the container
service_check_command(c) ==
    IF Id(c) = <<"alpine">>
    THEN Cmd("service_check", "openrc", "sshd", "")
    ELSE Cmd("service_check", "systemd", "ssh", "")

\* a configuration step that installs the package again
configure_command_Reinstall(c) ==
    Cmd("install", "systemd", "ssh", "apt-get:openssh-server")

\* lines 100-109: the enable+start command chosen for the container
configure_command(c) ==
    IF Id(c) = <<"alpine">>
    THEN Cmd("enable_start", "openrc", "sshd", "")
    ELSE Cmd("enable_start", "systemd", "ssh", "")

Supported(id) ==
    id \in {<<"alpine">>, <<"debian">>, <<"ubuntu">>,
            <<"centos">>, <<"rhel">>, <<"fedora">>}

\* lines 114-128: the install command chosen for the container
install_command(c) ==
    CASE Id(c) = <<"alpine">> ->
            Cmd("install", "openrc", "sshd", "apk:openssh")
      [] Id(c) \in {<<"debian">>, <<"ubuntu">>} ->
            Cmd("install", "systemd", "ssh", "apt-get:openssh-server")
      [] Id(c) \in {<<"centos">>, <<"rhel">>, <<"fedora">>} ->
            Cmd("install", "systemd", "sshd", "yum:openssh-server")
      [] OTHER -> Cmd("none", "", "", "")

MsgAlready == "OpenSSH is already installed and properly configured."
MsgStarted == "SSH service started and enabled."
MsgUnsupported == "Unsupported Linux distribution"
MsgInstallFailed == "Failed to install OpenSSH in container"
MsgInstalled == "OpenSSH successfully installed and configured in container"

\* env.check, env.svc: "ok" or "execerr"; env.mut: "ok", "fail", "partial"
\* or "execerr"
install_openssh(c, r, env) ==
    LET check_rc == ReturnCode(env.check, CheckSshd(r))
        check    == Ran(Cmd("check_sshd", "", "", ""), env.check, check_rc)
    IN
    IF ~HasId(c) THEN Result("KeyError", FALSE, "", r, <<check>>)
    ELSE IF check_rc = 0 THEN
        LET scmd   == service_check_command(c)
            svc_rc == ReturnCode(env.svc, ServiceCheck(r, scmd.unit))
            svc    == Ran(scmd, env.svc, svc_rc)
        IN  IF svc_rc = 0
            THEN Result("none", FALSE, MsgAlready, r, <<check, svc>>)
            ELSE LET ccmd == configure_command(c)
                     how  == IF env.mut = "ok" THEN "ok" ELSE "fail"
                     \* run_command_silently: the result is dropped
                     conf == Ran(ccmd, how, InstallStatus(how))
                 IN  Result("none", TRUE, MsgStarted,
                            EnableStart(r, ccmd.unit, how), <<check, svc, conf>>)
    ELSE IF ~Supported(Id(c))
    THEN Result("none", FALSE, MsgUnsupported, r, <<check>>)
    ELSE
        LET icmd       == install_command(c)
            install_rc == ReturnCode(env.mut, InstallStatus(env.mut))
            inst       == Ran(icmd, env.mut, install_rc)
            r2         == Install(r, icmd.unit, env.mut)
        IN  IF install_rc # 0
            THEN Result("none", FALSE, MsgInstallFailed, r2, <<check, inst>>)
            ELSE Result("none", TRUE, MsgInstalled, r2, <<check, inst>>)

InstallEnvs == [check : {"ok", "execerr"}, svc : {"ok", "execerr"},
                mut : {"ok", "fail", "partial", "execerr"}]

-----------------------------------------------------------------------------
(* set_ssh_password_authentication *)

PA == "PasswordAuthentication"

\* lines joined by newlines, as a command prints them
RECURSIVE JoinLines(_)
JoinLines(ls) ==
    IF ls = <<>> THEN <<>> ELSE Head(ls) \o <<NL>> \o JoinLines(Tail(ls))

\* grep PasswordAuthentication: the lines that contain the word anywhere
Grep(ls) == SelectSeq(ls, LAMBDA l : \E i \in 1..Len(l) : l[i] = PA)

\* a probe that fails only when the file is absent: a file without the word
\* gives status 0 and prints nothing
PasswordProbe_FileOnly(r) ==
    IF r.config.exists
    THEN [status |-> 0, stdout |-> JoinLines(Grep(r.config.lines))]
    ELSE [status |-> 1, stdout |-> <<>>]

\* '[ -f /etc/ssh/sshd_config ] && grep PasswordAuthentication ... || exit 1'
PasswordProbe(r) ==
    IF r.config.exists /\ Grep(r.config.lines) # <<>>
    THEN [status |-> 0, stdout |-> JoinLines(Grep(r.config.lines))]
    ELSE [status |-> 1, stdout |-> <<>>]

\* the regular expression ^#?(PasswordAuthentication)\s.* on one line
SedMatches(l) ==
    LET body == IF l # <<>> /\ l[1] = "#" THEN Tail(l) ELSE l
    IN  Len(body) >= 2 /\ body[1] = PA /\ body[2] = " "

\* sed -E -i 's|^#?(PasswordAuthentication)\s.*|\1 <status>|': every matching
\* line is replaced, every other line is kept
Sed(ls, status) ==
    [i \in 1..Len(ls) |-> IF SedMatches(ls[i]) THEN <<PA, " ", status>> ELSE ls[i]]

SedRun(r, status, how) ==
    IF how = "ok" /\ r.config.exists
    THEN [r EXCEPT !.config.lines = Sed(r.config.lines, status)]
    ELSE r

\* lines 168-171: the restart command chosen for the container
restart_command(c) ==
    IF Id(c) = <<"alpine">>
    THEN Cmd("restart", "service", "ssh", "")
    ELSE Cmd("restart", "systemd", "ssh", "")

MsgNotConfigured == "SSH not installed or not configured."
MsgAlreadySet == "Already set to the desired status."
MsgSet == "PasswordAuthentication set to"

\* line 160: some printed line starts with 'PasswordAuthentication <status>'
AlreadySet(stdout, status) ==
    \E i \in 1..Len(SplitLines(stdout)) :
        StartsWith(SplitLines(stdout)[i], <<PA, " ", status>>)

\* env.probe: "ok" or "execerr"; env.sed, env.restart: "ok" or "fail"
set_ssh_password_authentication(c, r, status, env) ==
    LET pr     == PasswordProbe(r)
        rc     == ReturnCode(env.probe, pr.status)
        stdout == IF env.probe = "ok" THEN pr.stdout ELSE <<>>
        probe  == Ran(Cmd("pw_probe", "", "", ""), env.probe, rc)
        sed    == Ran(Cmd("sed", "", "", status), env.sed,
                      IF env.sed = "ok" THEN 0 ELSE 1)
        r2     == SedRun(r, status, env.sed)
    IN
    IF rc # 0 THEN Result("none", TRUE, MsgNotConfigured, r, <<probe>>)
    ELSE IF AlreadySet(stdout, status)
    THEN Result("none", FALSE, MsgAlreadySet, r, <<probe>>)
    ELSE IF ~HasId(c) THEN Result("KeyError", FALSE, "", r2, <<probe, sed>>)
    ELSE LET restart == Ran(restart_command(c), env.restart,
                            IF env.restart = "ok" THEN 0 ELSE 1)
         IN  Result("none", TRUE, MsgSet, r2, <<probe, sed, restart>>)

PwEnvs == [probe : {"ok", "execerr"}, sed : {"ok", "fail"}, restart : {"ok", "fail"}]

-----------------------------------------------------------------------------
(* add_ssh_public_keys *)

IsSpace(t) == t \in {NL, " "}

\* str.strip()
RECURSIVE LStrip(_)
LStrip(s) == IF s # <<>> /\ IsSpace(Head(s)) THEN LStrip(Tail(s)) ELSE s

RECURSIVE RStrip(_)
RStrip(s) ==
    IF s # <<>> /\ IsSpace(s[Len(s)]) THEN RStrip(SubSeq(s, 1, Len(s) - 1)) ELSE s

Strip(s) == RStrip(LStrip(s))

\* a substitution that keeps the output's trailing newlines
CommandSubst_Verbatim(s) == s

\* $(...): the output without its trailing newlines
RECURSIVE CommandSubst(_)
CommandSubst(s) ==
    IF s # <<>> /\ s[Len(s)] = NL
    THEN CommandSubst(SubSeq(s, 1, Len(s) - 1))
    ELSE s

\* echo "$X": the text and a newline
Echo(s) == s \o <<NL>>

\* echo "$EXISTING_KEYS" | grep -qxF "$key": some whole line equals the key
GrepLine(existing, key) ==
    \E i \in 1..Len(SplitLines(Echo(existing))) :
        SplitLines(Echo(existing))[i] = key

\* lines 218-223, the body of the while loop over the lines of echo "$KEYS"
RECURSIVE MergeLoop(_, _, _)
MergeLoop(updated, existing, keylines) ==
    IF keylines = <<>> THEN updated
    ELSE MergeLoop(IF ~GrepLine(existing, Head(keylines))
                   THEN updated \o <<NL>> \o Head(keylines)
                   ELSE updated,
                   existing, Tail(keylines))

\* A pipeline's last command runs in a subshell (dash, busybox ash, bash):
\* what the while loop assigned is lost, the shell's own variable is as before
AfterPipeline(before, in_subshell) == before

\* an update that keeps the existing keys in both modes
UpdatedKeys_KeepExisting(existing, keys, remove_existing) ==
    IF existing = <<>> THEN keys ELSE existing \o <<NL>> \o keys

\* lines 214-224
UpdatedKeys(existing, keys, remove_existing) ==
    IF remove_existing THEN keys
    ELSE AfterPipeline(existing,
                       MergeLoop(existing, existing, SplitLines(Echo(keys))))

\* lines 195-238, the script run in the container.  env.mkdir, env.read,
\* env.write: "ok" or "fail"; failed: some step of the script failed
KeysScript(r, keys, remove_existing, env) ==
    LET dir      == r.sshdir \/ env.mkdir = "ok"
        readable == dir /\ r.akeys.exists
        existing == IF readable /\ env.read = "ok"
                    THEN CommandSubst(r.akeys.text) ELSE <<>>
        updated  == UpdatedKeys(existing, keys, remove_existing)
        written  == dir /\ env.write = "ok"
        r1       == [r EXCEPT !.sshdir = dir]
    IN  IF updated = existing
        THEN [status |-> 0, remote |-> r1,
              failed |-> ~dir \/ (readable /\ env.read # "ok")]
        ELSE [status |-> 1,
              remote |-> IF written
                         THEN [r1 EXCEPT !.akeys = [exists |-> TRUE,
                                                    text |-> Echo(updated)]]
                         ELSE r1,
              failed |-> ~dir \/ (readable /\ env.read # "ok") \/ ~written]

MsgKeyFileNotFound == "Key file 'keys.pub' not found."
MsgKeyFileEmpty == "Key file is empty."
MsgNoChanges == "No changes were made to container."
MsgKeysAdded == "SSH keys successfully added to container."
MsgKeysFailed == "Failed to add SSH keys to container"

\* env.exec: "ok" or "execerr"
add_ssh_public_keys(c, r, kf, remove_existing, env) ==
    IF ~kf.exists THEN Result("none", FALSE, MsgKeyFileNotFound, r, <<>>)
    ELSE IF Strip(kf.text) = <<>> THEN Result("none", FALSE, MsgKeyFileEmpty, r, <<>>)
    ELSE
        LET sc  == KeysScript(r, Strip(kf.text), remove_existing, env)
            rc  == ReturnCode(env.exec, sc.status)
            how == CASE env.exec = "execerr" -> "execerr"
                     [] sc.failed -> "fail"
                     [] OTHER -> "ok"
            run == <<Ran(Cmd("keys_script", "", "",
                             IF remove_existing THEN "true" ELSE "false"), how, rc)>>
            r2  == IF env.exec = "ok" THEN sc.remote ELSE r
        IN  IF rc = 0 THEN Result("none", FALSE, MsgNoChanges, r2, run)
            ELSE IF rc = 1 THEN Result("none", TRUE, MsgKeysAdded, r2, run)
            ELSE Result("none", TRUE, MsgKeysFailed, r2, run)

KeysEnvs == [exec : {"ok", "execerr"}, mkdir : {"ok", "fail"},
             read : {"ok", "fail"}, write : {"ok", "fail"}]

-----------------------------------------------------------------------------
(* The containers a run can meet *)

OsRelease(id) == <<"NAME", "=", DQ, "x", DQ, NL, "ID", "=">> \o id \o <<NL>>

SupportedOsReleases ==
    {OsRelease(<<"alpine">>), OsRelease(<<"debian">>), OsRelease(<<"ubuntu">>),
     OsRelease(<<DQ, "centos", DQ>>), OsRelease(<<"rhel">>), OsRelease(<<"fedora">>)}

\* an id that is none of the six, and ids spelled with capital letters
OtherOsReleases ==
    {OsRelease(<<"arch">>), OsRelease(<<"Alpine">>), OsRelease(<<"DEBIAN">>),
     OsRelease(<<"Ubuntu">>)}

\* texts whose parse has no 'id': nothing printed; no ID line
NoIdOsReleases == {<<>>, <<"NAME", "=", "x", NL>>}

Units == {"ssh", "sshd"}

\* the daemon and its services: absent; or present, each unit stopped or running
DaemonStates ==
    {[sshd |-> FALSE, unit |-> [u \in Units |-> "stopped"]]}
    \cup {[sshd |-> TRUE, unit |-> f] : f \in [Units -> {"stopped", "running"}]}

ConfigLines ==
    {<<PA, " ", "yes">>, <<PA, " ", "no">>, <<"#", PA, " ", "yes">>,
     <<"#", " ", PA, " ", "yes">>, <<" ", PA, " ", "yes">>,
     <<PA, " ", "no", " ">>, <<"x">>}

SeqsUpTo(S, n) == UNION {[1..k -> S] : k \in 0..n}

NoConfig == [exists |-> FALSE, lines |-> <<>>]

ConfigFiles ==
    {NoConfig} \cup {[exists |-> TRUE, lines |-> ls] : ls \in SeqsUpTo(ConfigLines, MaxConfigLines)}

\* texts of up to MaxKeyLines keys, each line ended by a newline, or the last
\* not; a text of one empty line
KeyTexts(names) ==
    LET full == {JoinLines([i \in 1..Len(ks) |-> <<ks[i]>>]) :
                    ks \in SeqsUpTo(names, MaxKeyLines)}
    IN  full \cup {CommandSubst(t) : t \in full} \cup {<<NL>>}

NoFile == [exists |-> FALSE, text |-> <<>>]

TextFiles(names) == {NoFile} \cup {[exists |-> TRUE, text |-> t] : t \in KeyTexts(names)}

Container(vmid, running) ==
    [vmid |-> vmid, running |-> running, hasVersion |-> FALSE, version |-> <<>>]

Remote(osrelease, daemon, config, akeys) ==
    [osrelease |-> osrelease, sshd |-> daemon.sshd, unit |-> daemon.unit,
     config |-> config, akeys |-> akeys, sshdir |-> akeys.exists]

WithVersion(c, version) == [c EXCEPT !.hasVersion = TRUE, !.version = version]

-----------------------------------------------------------------------------
(* Direct calls of the reconcilers on one container *)

Call(fn, v, arg, pre, res) ==
    [fn |-> fn, vmid |-> v, arg |-> arg, pre |-> pre, res |-> res]

Issue(fn, v, run) == {[fn |-> fn, vmid |-> v, ran |-> run[i]] : i \in 1..Len(run)}

\* one container whose OS info get_linux_version has read
InitOne(osreleases, daemons, configs, akeyss, keyfiles) ==
    /\ \E o \in osreleases, d \in daemons, cf \in configs, ak \in akeyss :
          /\ containers = [v \in {1} |->
                WithVersion(Container(1, TRUE), get_linux_version(o).version)]
          /\ remote = [v \in {1} |-> Remote(o, d, cf, ak)]
    /\ keyfile \in keyfiles
    /\ pc = "idle"
    /\ idx = 1
    /\ out = <<>>
    /\ faulty = {1}
    /\ calls = <<>>
    /\ issued = {}

CallInstall ==
    /\ pc = "idle"
    /\ Len(calls) < MaxCalls
    /\ \E v \in DOMAIN containers, env \in InstallEnvs :
          LET res == install_openssh(containers[v], remote[v], env)
          IN  /\ remote' = [remote EXCEPT ![v] = res.remote]
              /\ calls' = Append(calls, Call("install_openssh", v, "", remote[v], res))
    /\ UNCHANGED <<containers, keyfile, pc, idx, out, faulty, issued>>

CallSetPassword ==
    /\ pc = "idle"
    /\ Len(calls) < MaxCalls
    /\ \E v \in DOMAIN containers, status \in {"yes", "no"}, env \in PwEnvs :
          LET res == set_ssh_password_authentication(containers[v], remote[v], status, env)
          IN  /\ remote' = [remote EXCEPT ![v] = res.remote]
              /\ calls' = Append(calls,
                    Call("set_ssh_password_authentication", v, status, remote[v], res))
    /\ UNCHANGED <<containers, keyfile, pc, idx, out, faulty, issued>>

CallAddKeys ==
    /\ pc = "idle"
    /\ Len(calls) < MaxCalls
    /\ \E v \in DOMAIN containers, remove_existing \in BOOLEAN, env \in KeysEnvs :
          LET res == add_ssh_public_keys(containers[v], remote[v], keyfile,
                                         remove_existing, env)
          IN  /\ remote' = [remote EXCEPT ![v] = res.remote]
              /\ calls' = Append(calls,
                    Call("add_ssh_public_keys", v, remove_existing, remote[v], res))
    /\ UNCHANGED <<containers, keyfile, pc, idx, out, faulty, issued>>

InitInstall ==
    InitOne(SupportedOsReleases \cup OtherOsReleases \cup NoIdOsReleases,
            DaemonStates, {NoConfig}, {NoFile}, {NoFile})

SpecInstall == InitInstall /\ [][CallInstall]_vars

InitPassword ==
    InitOne({OsRelease(<<"alpine">>), OsRelease(<<"debian">>)},
            {d \in DaemonStates : d.sshd /\ d.unit["ssh"] = "running"},
            ConfigFiles, {NoFile}, {NoFile})

SpecPassword == InitPassword /\ [][CallSetPassword]_vars

InitKeys ==
    InitOne({OsRelease(<<"debian">>)},
            {d \in DaemonStates : d.sshd /\ d.unit["ssh"] = "running" /\ d.unit["sshd"] = "stopped"},
            {NoConfig}, TextFiles({"A", "B"}), TextFiles({"B", "C"}))

SpecKeys == InitKeys /\ [][CallAddKeys]_vars

-----------------------------------------------------------------------------
(* main *)

Fleet == 1..NumContainers

MsgNotRunning == "is not running."
MsgNoKeyFile == "Replacing public SSH keys is not possible. Create keys.pub file."

Line(stage, v, msg) == [stage |-> stage, vmid |-> v, msg |-> msg]

\* the next iteration of the stage's loop, or the stage after the loop
NextStage(stage) ==
    CASE stage = "os" -> "install"
      [] stage = "install" -> "pw"
      [] stage = "pw" -> IF keyfile.exists THEN "keys" ELSE "done"
      [] OTHER -> "done"

Advance(lines) ==
    IF idx < Cardinality(DOMAIN containers)
    THEN /\ idx' = idx + 1
         /\ pc' = pc
         /\ out' = out \o lines
    ELSE /\ idx' = 1
         /\ pc' = NextStage(pc)
         /\ out' = out \o lines \o
                   (IF pc = "pw" /\ ~keyfile.exists
                    THEN <<Line("keys", 0, MsgNoKeyFile)>> ELSE <<>>)

\* an exception nothing catches ends main()
Crash ==
    /\ pc' = "crashed"
    /\ UNCHANGED <<idx, out>>

\* lines 272-281, 284-293, 297-306: what the loop body does with a result
Report(stage, v, res) ==
    IF res.exc # "none" THEN Crash
    ELSE Advance(IF res.changed THEN <<Line(stage, v, res.msg)>> ELSE <<>>)

Skip(stage, v) == Advance(<<Line(stage, v, MsgNotRunning)>>)

\* the outcomes the environment can give a remote command of container v
Outcomes(v, S) == IF v \in faulty THEN S ELSE {"ok"}

Envs(v, E) ==
    IF v \in faulty THEN E ELSE {env \in E : \A f \in DOMAIN env : env[f] = "ok"}

\* lines 263-269
MainOs ==
    /\ pc = "os"
    /\ IF containers[idx].running
       THEN \E how \in Outcomes(idx, {"ok", "execerr"}) :
               LET got == get_linux_version(CatOsRelease(remote[idx], how))
               IN  /\ issued' = issued \cup Issue("get_linux_version", idx,
                                   <<Ran(Cmd("cat_os_release", "", "", ""), how,
                                         ReturnCode(how, 0))>>)
                   /\ IF got.exc # "none"
                      THEN Crash /\ UNCHANGED containers
                      ELSE /\ containers' = [containers EXCEPT
                                   ![idx] = WithVersion(@, got.version)]
                           /\ Advance(<<>>)
       ELSE /\ Skip("os", idx)
            /\ UNCHANGED <<containers, issued>>
    /\ UNCHANGED <<remote, keyfile, faulty, calls>>

\* lines 272-281
MainInstall ==
    /\ pc = "install"
    /\ IF containers[idx].running
       THEN \E env \in Envs(idx, InstallEnvs) :
               LET res == install_openssh(containers[idx], remote[idx], env)
               IN  /\ remote' = [remote EXCEPT ![idx] = res.remote]
                   /\ issued' = issued \cup Issue("install_openssh", idx, res.run)
                   /\ Report("install", idx, res)
       ELSE /\ Skip("install", idx)
            /\ UNCHANGED <<remote, issued>>
    /\ UNCHANGED <<containers, keyfile, faulty, calls>>

\* lines 284-293
MainPassword ==
    /\ pc = "pw"
    /\ IF containers[idx].running
       THEN \E env \in Envs(idx, PwEnvs) :
               LET res == set_ssh_password_authentication(
                              containers[idx], remote[idx], "no", env)
               IN  /\ remote' = [remote EXCEPT ![idx] = res.remote]
                   /\ issued' = issued \cup Issue("set_ssh_password_authentication",
                                               idx, res.run)
                   /\ Report("pw", idx, res)
       ELSE /\ Skip("pw", idx)
            /\ UNCHANGED <<remote, issued>>
    /\ UNCHANGED <<containers, keyfile, faulty, calls>>

\* lines 297-306
MainKeys ==
    /\ pc = "keys"
    /\ IF containers[idx].running
       THEN \E env \in Envs(idx, KeysEnvs) :
               LET res == add_ssh_public_keys(containers[idx], remote[idx],
                                              keyfile, TRUE, env)
               IN  /\ remote' = [remote EXCEPT ![idx] = res.remote]
                   /\ issued' = issued \cup Issue("add_ssh_public_keys", idx, res.run)
                   /\ Report("keys", idx, res)
       ELSE /\ Skip("keys", idx)
            /\ UNCHANGED <<remote, issued>>
    /\ UNCHANGED <<containers, keyfile, faulty, calls>>

main == MainOs \/ MainInstall \/ MainPassword \/ MainKeys

\* the containers of a fleet: stopped; fresh; daemon present and stopped;
\* converged; of an unsupported distribution; with an os-release that has no
\* ID or a line without "="
FleetKinds ==
    {[running |-> FALSE,
      remote |-> Remote(OsRelease(<<"debian">>), [sshd |-> FALSE, unit |-> [u \in Units |-> "stopped"]],
                        NoConfig, NoFile)],
     [running |-> TRUE,
      remote |-> Remote(OsRelease(<<"debian">>), [sshd |-> FALSE, unit |-> [u \in Units |-> "stopped"]],
                        [exists |-> TRUE, lines |-> <<<<"#", PA, " ", "yes">>>>], NoFile)],
     [running |-> TRUE,
      remote |-> Remote(OsRelease(<<"alpine">>), [sshd |-> TRUE, unit |-> [u \in Units |-> "stopped"]],
                        [exists |-> TRUE, lines |-> <<<<PA, " ", "yes">>>>],
                        [exists |-> TRUE, text |-> <<"A", NL>>])],
     [running |-> TRUE,
      remote |-> Remote(OsRelease(<<DQ, "centos", DQ>>), [sshd |-> FALSE, unit |-> [u \in Units |-> "stopped"]],
                        NoConfig, NoFile)],
     [running |-> TRUE,
      remote |-> Remote(OsRelease(<<"ubuntu">>),
                        [sshd |-> TRUE, unit |-> [u \in Units |-> IF u = "ssh" THEN "running" ELSE "stopped"]],
                        [exists |-> TRUE, lines |-> <<<<PA, " ", "no">>>>],
                        [exists |-> TRUE, text |-> <<"B", NL>>])],
     [running |-> TRUE,
      remote |-> Remote(OsRelease(<<"arch">>), [sshd |-> FALSE, unit |-> [u \in Units |-> "stopped"]],
                        NoConfig, NoFile)],
     [running |-> TRUE,
      remote |-> Remote(OsRelease(<<"arch">>), [sshd |-> TRUE, unit |-> [u \in Units |-> "stopped"]],
                        [exists |-> TRUE, lines |-> <<<<"#", PA, " ", "yes">>>>], NoFile)],
     [running |-> TRUE,
      remote |-> Remote(<<"NAME", "=", "x", NL>>, [sshd |-> TRUE, unit |-> [u \in Units |-> "stopped"]],
                        NoConfig, NoFile)],
     [running |-> TRUE,
      remote |-> Remote(<<"x", NL, "ID", "=", "alpine", NL>>,
                        [sshd |-> FALSE, unit |-> [u \in Units |-> "stopped"]],
                        NoConfig, NoFile)]}

KeyFiles ==
    {NoFile, [exists |-> TRUE, text |-> <<NL>>], [exists |-> TRUE, text |-> <<"B", NL>>]}

\* get_lxc_containers has listed the fleet; main() is about to read the OS info
Init ==
    /\ \E kinds \in [Fleet -> FleetKinds] :
          /\ containers = [v \in Fleet |-> Container(v, kinds[v].running)]
          /\ remote = [v \in Fleet |-> kinds[v].remote]
    /\ keyfile \in KeyFiles
    /\ faulty \in {{}} \cup {{v} : v \in Fleet}
    /\ pc = "os"
    /\ idx = 1
    /\ out = <<>>
    /\ calls = <<>>
    /\ issued = {}

Next == main

Spec == Init /\ [][Next]_vars

-----------------------------------------------------------------------------
(* Properties *)

CallsOf(fn) == {i \in 1..Len(calls) : calls[i].fn = fn}

\* every remote command of the call ran and did its work
AllOk(call) == \A k \in 1..Len(call.res.run) : call.res.run[k].how = "ok"

Ops(call) == {call.res.run[k].cmd.op : k \in 1..Len(call.res.run)}

Mutating == {"install", "enable_start", "sed", "restart"}

ContainsPA(l) == \E j \in 1..Len(l) : l[j] = PA

\* C1: two calls of install_openssh in succession on a container of a
\* supported family, all of whose remote commands succeed: the second call
\* returns changed = False.
C1_InstallIdempotent ==
    \A i \in CallsOf("install_openssh") :
        (/\ i + 1 \in CallsOf("install_openssh")
         /\ calls[i + 1].vmid = calls[i].vmid
         /\ HasId(containers[calls[i].vmid])
         /\ Supported(Id(containers[calls[i].vmid]))
         /\ AllOk(calls[i])
         /\ AllOk(calls[i + 1]))
        => /\ calls[i + 1].res.exc = "none"
           /\ ~calls[i + 1].res.changed

\* C2: merge mode on authorized_keys [A, B] with canonical keys [B, C] leaves
\* the file holding [A, B, C].
C2_MergeAppends ==
    \A i \in CallsOf("add_ssh_public_keys") :
        (/\ calls[i].arg = FALSE
         /\ AllOk(calls[i])
         /\ calls[i].pre.akeys = [exists |-> TRUE, text |-> <<"A", NL, "B", NL>>]
         /\ keyfile = [exists |-> TRUE, text |-> <<"B", NL, "C", NL>>])
        => SplitLines(calls[i].res.remote.akeys.text) = <<<<"A">>, <<"B">>, <<"C">>>>

Stages == {"get_linux_version", "install_openssh",
           "set_ssh_password_authentication", "add_ssh_public_keys"}

Attempted(fn, v) == \E e \in issued : e.fn = fn /\ e.vmid = v

\* C3: whatever the remote commands of a container give, main() is not
\* aborted, and when it is done every stage was run for every running
\* container (the keys stage when keys.pub holds keys).
C3_FleetIsolation ==
    /\ pc # "crashed"
    /\ pc = "done" =>
          \A v \in DOMAIN containers, fn \in Stages :
              (/\ containers[v].running
               /\ fn = "add_ssh_public_keys" =>
                      keyfile.exists /\ Strip(keyfile.text) # <<>>)
              => Attempted(fn, v)

\* C4: install_openssh on a container whose id is not a supported one (in
\* any letter case) ends in "Unsupported Linux distribution" and runs no
\* mutating command, whatever the state of the daemon and its service; stated
\* for the calls all of whose remote commands ran.
C4_UnsupportedNoMutation ==
    \A i \in CallsOf("install_openssh") :
        (/\ AllOk(calls[i])
         /\ HasId(containers[calls[i].vmid])
         /\ ~Supported(Lower(Id(containers[calls[i].vmid]))))
        => /\ calls[i].res.msg = MsgUnsupported
           /\ Ops(calls[i]) \cap Mutating = {}

\* C5: when a step of the keys script fails (mkdir, read, write) the outcome
\* is the failure outcome, never "No changes" nor "successfully added".
C5_KeysFailureDistinct ==
    \A i \in CallsOf("add_ssh_public_keys") :
        (\E k \in 1..Len(calls[i].res.run) : calls[i].res.run[k].how = "fail")
        => calls[i].res.msg = MsgKeysFailed

Probes == {"check_sshd", "service_check", "pw_probe"}

\* C6: a mutating command is run only after a probe that executed and
\* reported Unsatisfied; when a probe could not be executed, no mutating
\* command is run and the outcome is not "changed".
C6_ProbeGating ==
    \A i \in 1..Len(calls) :
        LET run == calls[i].res.run
        IN  /\ \A k \in 1..Len(run) :
                  run[k].cmd.op \in {"install", "enable_start", "sed"} =>
                      /\ k > 1
                      /\ run[k - 1].cmd.op \in Probes
                      /\ run[k - 1].how = "ok"
                      /\ run[k - 1].rc # 0
            /\ (\E k \in 1..Len(run) :
                    run[k].cmd.op \in Probes /\ run[k].how = "execerr")
               => /\ Ops(calls[i]) \cap Mutating = {}
                  /\ ~calls[i].res.changed

\* C7: when the install command of a container exits non-zero, main() prints
\* the failure, with its text, for that container.
C7_InstallFailureShown ==
    \A e \in issued :
        (e.fn = "install_openssh" /\ e.ran.cmd.op = "install" /\ e.ran.rc # 0)
        => \E k \in 1..Len(out) :
               out[k] = Line("install", e.vmid, MsgInstallFailed)

\* C8: a call of set_ssh_password_authentication that leaves sshd_config as
\* it was runs no restart and does not report the directive as set.
C8_RestartOnlyOnEdit ==
    \A i \in CallsOf("set_ssh_password_authentication") :
        (AllOk(calls[i]) /\ calls[i].res.remote.config = calls[i].pre.config)
        => /\ "restart" \notin Ops(calls[i])
           /\ calls[i].res.msg # MsgSet

Directive(status) == <<PA, " ", status>>

\* C9: on a file with a PasswordAuthentication line (commented or not) none
\* of whose lines holds the desired value, the call leaves exactly one
\* PasswordAuthentication line, the desired directive, and every other line
\* as it was.
C9_ExactlyOneDirective ==
    \A i \in CallsOf("set_ssh_password_authentication") :
        LET before == calls[i].pre.config.lines
            after  == calls[i].res.remote.config.lines
        IN  (/\ AllOk(calls[i])
             /\ calls[i].res.exc = "none"
             /\ calls[i].pre.config.exists
             /\ \E k \in 1..Len(before) : ContainsPA(before[k])
             /\ \A k \in 1..Len(before) : \A j \in 1..Len(before[k]) :
                    before[k][j] # calls[i].arg
             /\ calls[i].res.msg # MsgAlreadySet)
            => /\ Len(after) = Len(before)
               /\ Cardinality({k \in 1..Len(after) : ContainsPA(after[k])}) = 1
               /\ \A k \in 1..Len(after) :
                     IF ContainsPA(after[k])
                     THEN after[k] = Directive(calls[i].arg)
                     ELSE after[k] = before[k]

\* C10 as stated: the "not installed or not configured" branch is taken
\* exactly when sshd_config is absent, and "Already set" is reported only
\* when a line equal to the desired directive is present.
C10_AbsentFileOnly ==
    \A i \in CallsOf("set_ssh_password_authentication") :
        LET cfg == calls[i].pre.config
        IN  AllOk(calls[i]) =>
              /\ calls[i].res.msg = MsgNotConfigured <=> ~cfg.exists
              /\ calls[i].res.msg = MsgAlreadySet =>
                    \E k \in 1..Len(cfg.lines) : cfg.lines[k] = Directive(calls[i].arg)

\* C10 as amended: the "not installed or not configured" branch is taken
\* exactly when the probe exits non-zero: the probe could not be executed,
\* sshd_config is absent, or no line of it contains PasswordAuthentication.
\* Otherwise "Already set" is reported exactly when a line starts with the
\* desired directive, and else the call goes on to the rewrite.
C10_ProbeClassification ==
    \A i \in CallsOf("set_ssh_password_authentication") :
        LET cfg     == calls[i].pre.config
            run     == calls[i].res.run
            noline  == \A k \in 1..Len(cfg.lines) : ~ContainsPA(cfg.lines[k])
            starts  == \E k \in 1..Len(cfg.lines) :
                          /\ Len(cfg.lines[k]) >= 3
                          /\ cfg.lines[k][1] = PA
                          /\ cfg.lines[k][2] = " "
                          /\ cfg.lines[k][3] = calls[i].arg
        IN  /\ calls[i].res.msg = MsgNotConfigured
                  <=> (run[1].how = "execerr" \/ ~cfg.exists \/ noline)
            /\ calls[i].res.msg = MsgAlreadySet
                  <=> (run[1].how = "ok" /\ cfg.exists /\ starts)
            /\ calls[i].res.msg \notin {MsgNotConfigured, MsgAlreadySet}
                  => Len(run) >= 2 /\ run[2].cmd.op = "sed"

\* a call met a sshd_config that exists and holds no PasswordAuthentication
\* line, and took the "not installed or not configured" branch
C10_Witness ==
    \E i \in CallsOf("set_ssh_password_authentication") :
        /\ calls[i].pre.config.exists
        /\ calls[i].pre.config.lines = <<<<"x">>>>
        /\ calls[i].res.run[1].how = "ok"
        /\ calls[i].res.msg = MsgNotConfigured

\* the canonical key set: the text of keys.pub as the code passes it on
Canonical == Strip(keyfile.text)

\* C11: two calls of add_ssh_public_keys in succession on a container, with
\* the same non-empty canonical keys and the same mode, all of whose steps
\* succeed: the second call returns "No changes were made" with changed =
\* False and leaves authorized_keys as the first call left it.
C11_KeysIdempotent ==
    \A i \in CallsOf("add_ssh_public_keys") :
        (/\ i + 1 \in CallsOf("add_ssh_public_keys")
         /\ calls[i + 1].vmid = calls[i].vmid
         /\ calls[i + 1].arg = calls[i].arg
         /\ keyfile.exists
         /\ Canonical # <<>>
         /\ AllOk(calls[i])
         /\ AllOk(calls[i + 1]))
        => /\ ~calls[i + 1].res.changed
           /\ calls[i + 1].res.msg = MsgNoChanges
           /\ calls[i + 1].res.remote.akeys = calls[i + 1].pre.akeys

\* a first call in replace mode wrote the file and a second one, in the same
\* mode, left it alone
C11_Witness ==
    \E i \in CallsOf("add_ssh_public_keys") :
        /\ i + 1 \in CallsOf("add_ssh_public_keys")
        /\ calls[i].arg = TRUE
        /\ calls[i + 1].arg = TRUE
        /\ AllOk(calls[i])
        /\ AllOk(calls[i + 1])
        /\ calls[i].res.msg = MsgKeysAdded
        /\ calls[i].res.remote.akeys # calls[i].pre.akeys
        /\ calls[i + 1].res.msg = MsgNoChanges

\* C12: after a call of add_ssh_public_keys in replace mode with non-empty
\* canonical keys, all of whose steps succeed, the lines of authorized_keys
\* are the canonical lines, in their order, whatever the file held before
\* (nothing, no line, any lines).
C12_ReplaceExact ==
    \A i \in CallsOf("add_ssh_public_keys") :
        (/\ calls[i].arg = TRUE
         /\ keyfile.exists
         /\ Canonical # <<>>
         /\ AllOk(calls[i]))
        => /\ calls[i].res.remote.akeys.exists
           /\ SplitLines(calls[i].res.remote.akeys.text) = SplitLines(Canonical)

\* a call in replace mode met a file with a key that is not canonical and
\* left the two canonical keys only
C12_Witness ==
    \E i \in CallsOf("add_ssh_public_keys") :
        /\ calls[i].arg = TRUE
        /\ AllOk(calls[i])
        /\ SplitLines(calls[i].pre.akeys.text) = <<<<"A">>, <<"B">>>>
        /\ SplitLines(Canonical) = <<<<"B">>, <<"C">>>>
        /\ SplitLines(calls[i].res.remote.akeys.text) = <<<<"B">>, <<"C">>>>

\* the name main() prints a stage under
StageName(fn) ==
    CASE fn = "get_linux_version" -> "os"
      [] fn = "install_openssh" -> "install"
      [] fn = "set_ssh_password_authentication" -> "pw"
      [] OTHER -> "keys"

Skipped(fn, v) ==
    \E k \in 1..Len(out) : out[k] = Line(StageName(fn), v, MsgNotRunning)

\* the stage's loop was entered: it ran a command or skipped a container
StageRan(fn) ==
    \/ \E e \in issued : e.fn = fn
    \/ \E v \in DOMAIN containers : Skipped(fn, v)

Ended == pc \in {"done", "crashed"}

\* C13: no remote command is issued to a container that is not running; and
\* when main() has ended, in every stage that ran every container that is
\* not running has its "is not running" line and every running container
\* was attempted (in the keys stage, when keys.pub holds keys).
C13_StoppedSkipped ==
    /\ \A e \in issued : containers[e.vmid].running
    /\ Ended =>
          \A fn \in Stages : StageRan(fn) =>
              \A v \in DOMAIN containers :
                  IF containers[v].running
                  THEN (fn = "add_ssh_public_keys" => Canonical # <<>>)
                       => Attempted(fn, v)
                  ELSE Skipped(fn, v)

\* install_openssh of container v returned at line 130: the daemon probe
\* gave non-zero and the id is none of the supported ones
EndedUnsupported(v) ==
    /\ HasId(containers[v])
    /\ ~Supported(Id(containers[v]))
    /\ \E e \in issued :
          /\ e.fn = "install_openssh"
          /\ e.vmid = v
          /\ e.ran.cmd.op = "check_sshd"
          /\ e.ran.rc # 0

LaterStages == {"set_ssh_password_authentication", "add_ssh_public_keys"}

\* C14: the password and keys stages issue no remote command to a container
\* whose install_openssh ended in "Unsupported Linux distribution"; when
\* main() is done they were run for every other running container (the keys
\* stage when keys.pub holds keys).
C14_UnsupportedSkipsLater ==
    /\ \A e \in issued :
          e.fn \in LaterStages => ~EndedUnsupported(e.vmid)
    /\ pc = "done" =>
          \A v \in DOMAIN containers, fn \in LaterStages :
              (/\ containers[v].running
               /\ ~EndedUnsupported(v)
               /\ fn = "add_ssh_public_keys" => Canonical # <<>>)
              => Attempted(fn, v)

Printed(msg) == \E k \in 1..Len(out) : out[k].msg = msg

\* C15: in a run of main() that is done, with a running container: when
\* keys.pub is missing the operator is told so, when it holds nothing but
\* whitespace the operator is told it is empty; in both cases no remote
\* command of the keys stage was issued, and install_openssh and
\* set_ssh_password_authentication were run for every running container.
C15_KeySourceReported ==
    (/\ pc = "done"
     /\ \E v \in DOMAIN containers : containers[v].running
     /\ ~keyfile.exists \/ Canonical = <<>>)
    => /\ ~keyfile.exists => Printed(MsgNoKeyFile) \/ Printed(MsgKeyFileNotFound)
       /\ keyfile.exists => Printed(MsgKeyFileEmpty)
       /\ \A e \in issued : e.fn # "add_ssh_public_keys"
       /\ \A v \in DOMAIN containers :
             containers[v].running =>
                 /\ Attempted("install_openssh", v)
                 /\ Attempted("set_ssh_password_authentication", v)

\* the package command of the family of a lower-case id
FamilyPackage(id) ==
    CASE id = <<"alpine">> -> "apk:openssh"
      [] id \in {<<"debian">>, <<"ubuntu">>} -> "apt-get:openssh-server"
      [] id \in {<<"centos">>, <<"rhel">>, <<"fedora">>} -> "yum:openssh-server"
      [] OTHER -> "none"

FamilyManager(id) == IF id = <<"alpine">> THEN "openrc" ELSE "systemd"

\* C16: the command family follows the id of os-release with its letters
\* put in lower case: install_openssh on a container without the daemon,
\* all of whose commands succeed, runs the install command of that family
\* ('Alpine' as alpine, 'DEBIAN' and 'Ubuntu' as debian-like), and ends in
\* "Unsupported Linux distribution" for every other id.
C16_CaseNormalizedFamily ==
    \A i \in CallsOf("install_openssh") :
        LET c    == containers[calls[i].vmid]
            run  == calls[i].res.run
            want == FamilyPackage(Lower(Id(c)))
        IN  (HasId(c) /\ AllOk(calls[i]) /\ ~calls[i].pre.sshd)
            => IF want = "none"
               THEN /\ calls[i].res.msg = MsgUnsupported
                    /\ "install" \notin Ops(calls[i])
               ELSE \E k \in 1..Len(run) :
                       /\ run[k].cmd.op = "install"
                       /\ run[k].cmd.pkg = want
                       /\ run[k].cmd.mgr = FamilyManager(Lower(Id(c)))

\* C17: when the daemon probe of install_openssh gives status 0, the call
\* runs no package install command; if the service probe then gives
\* non-zero it runs exactly one mutating command, the enable+start that
\* follows the probe, and returns changed = True; if the service probe gives
\* 0 it runs no further command and returns changed = False.
C17_TwoTierSkip ==
    \A i \in CallsOf("install_openssh") :
        LET run == calls[i].res.run
        IN  (run[1].cmd.op = "check_sshd" /\ run[1].rc = 0)
            => /\ "install" \notin Ops(calls[i])
               /\ \A k \in 1..Len(run) :
                     run[k].cmd.op = "service_check" =>
                         IF run[k].rc # 0
                         THEN /\ Len(run) = k + 1
                              /\ run[k + 1].cmd.op = "enable_start"
                              /\ calls[i].res.changed
                         ELSE /\ Len(run) = k
                              /\ ~calls[i].res.changed

\* a call found the daemon, found its service not running, enabled and
\* started it; another found daemon and service in place and did nothing
C17_Witness ==
    /\ \E i \in CallsOf("install_openssh") :
          /\ calls[i].pre.sshd
          /\ AllOk(calls[i])
          /\ Ops(calls[i]) = {"check_sshd", "service_check", "enable_start"}
          /\ calls[i].res.changed
    /\ \E i \in CallsOf("install_openssh") :
          /\ calls[i].pre.sshd
          /\ Ops(calls[i]) = {"check_sshd", "service_check"}
          /\ ~calls[i].res.changed
          /\ calls[i].res.msg = MsgAlready

ServiceOps == {"service_check", "enable_start", "install", "restart"}

\* C18: every service command a reconciler issues to a container of a
\* supported family addresses the unit that the family's install command
\* enables and starts, with systemd exactly when the family is not alpine.
C18_DispatchConsistent ==
    \A i \in 1..Len(calls) :
        LET c   == containers[calls[i].vmid]
            run == calls[i].res.run
        IN  (HasId(c) /\ Supported(Id(c)))
            => \A k \in 1..Len(run) :
                   run[k].cmd.op \in ServiceOps =>
                       /\ run[k].cmd.unit = install_command(c).unit
                       /\ run[k].cmd.mgr = "systemd" <=> Id(c) # <<"alpine">>

MutationMsgs == {MsgInstalled, MsgStarted, MsgSet}

\* C19: when install_openssh or set_ssh_password_authentication returns
\* changed = True for a mutation (installed, service started and enabled,
\* directive set), every mutating command the call issued exited with
\* status zero; stated for the calls whose probes could be executed.
C19_ChangedImpliesEstablished ==
    \A i \in 1..Len(calls) :
        LET run == calls[i].res.run
        IN  (/\ calls[i].res.changed
             /\ calls[i].res.msg \in MutationMsgs
             /\ \A k \in 1..Len(run) :
                    run[k].cmd.op \in Probes => run[k].how = "ok")
            => \A k \in 1..Len(run) :
                   run[k].cmd.op \in Mutating => run[k].rc = 0

====
